---- MODULE Spec2Model ----
(***************************************************************************)
(* Model of the Stone Image editor.                                        *)
(*                                                                         *)
(*  - editImageWithPrompt (services/geminiService, three variants kept in  *)
(*    src/unnamed/part_000): one invocation, from the call to its          *)
(*    settled promise, with the transport (ai.models.generateContent) as a *)
(*    nondeterministic environment.  Specification EditSpec.               *)
(*  - App (src/App.tsx): the React state and its event handlers, with the  *)
(*    pending file reads and pending edit requests.  Specification Spec.   *)
(*                                                                         *)
(* `undefined`/`null` is the empty tuple <<>> and a present value x is     *)
(* <<x>>.  The prompt and the tokens, which the code trims, lower-cases    *)
(* and searches, are sequences of UTF-16 code units; the texts the code    *)
(* only concatenates and compares (messages, keys, payloads, file names)   *)
(* are TLA+ strings.                                                       *)
(***************************************************************************)
EXTENDS Bags, FiniteSets, Integers, Sequences, TLC

----------------------------------------------------------------------------
(* Bounds of the model *)

\* longest parts list of a candidate in a modelled response
MaxParts == 2
\* longest candidate list of a modelled response
MaxCandidates == 2
\* most edit requests the model lets be pending at once
MaxRequests == 2
\* most file reads the model lets be pending at once
MaxReads == 1

----------------------------------------------------------------------------
(* Values *)

None == <<>>
Some(x) == <<x>>
Opt(S) == {None} \cup {Some(x) : x \in S}

\* the three variants of editImageWithPrompt in src/unnamed/part_000
\* lines 3-49: the key is the apiKey parameter
ExplicitVariant == 1
\* lines 53-98: the key is process.env.API_KEY
EnvVariant == 2
\* lines 114-164: the key is LOCAL_API_KEY || process.env.API_KEY
LocalVariant == 3
Variants == {ExplicitVariant, EnvVariant, LocalVariant}

\* credentials: "" is the empty/absent (falsy) one
ExplicitKeys == {"", "key-explicit"}
EnvKeys == {"", "key-env"}

\* line 110, `const LOCAL_API_KEY = ""<identifier>;`, is a string literal
\* directly followed by an identifier: a SyntaxError.  The constant gets no
\* value
LocalKeys == {None}

\* the module of lines 100-164 does not load, so its editImageWithPrompt is
\* never defined; the modules of the other two variants load
ModuleLoads(v, local) == v = LocalVariant => local # None

\* payloads an inlineData part can carry
Data == {"", "d1"}

\* a response part: inlineData present (with its data) or a text part
InlinePart(d) == [hasInlineData |-> TRUE, data |-> d]
TextPart == [hasInlineData |-> FALSE, data |-> ""]
Parts == {TextPart} \cup {InlinePart(d) : d \in Data}

SeqsUpTo(S, n) == UNION {[1..k -> S] : k \in 0..n}

\* a candidate: content?: { parts?: Part[] }
Candidates ==
  {[content |-> None], [content |-> Some([parts |-> None])]}
    \cup {[content |-> Some([parts |-> Some(ps)])] : ps \in SeqsUpTo(Parts, MaxParts)}

\* the candidates the model puts after the first one: without content, or
\* carrying an image of their own
LaterCandidates ==
  {[content |-> None], [content |-> Some([parts |-> Some(<<InlinePart("later")>>)])]}

\* a response: candidates?: Candidate[]
CandidateLists ==
  {<<>>} \cup {<<c>> \o rest : c \in Candidates,
                               rest \in SeqsUpTo(LaterCandidates, MaxCandidates - 1)}
Responses ==
  {[candidates |-> None]} \cup {[candidates |-> Some(cs)] : cs \in CandidateLists}

\* messages of the errors the transport throws
TransportMessages == {"", "boom"}

NoResponse == [candidates |-> None]

\* what awaiting generateContent yields: a response, a thrown Error with a
\* message, or a thrown value that is not an Error
TransportOutcomes ==
  {[kind |-> "ok", response |-> r, message |-> ""] : r \in Responses}
    \cup {[kind |-> "throwError", response |-> NoResponse, message |-> m] : m \in TransportMessages}
    \cup {[kind |-> "throwOther", response |-> NoResponse, message |-> ""]}

\* how the promise of editImageWithPrompt settles
Returned(d) == [kind |-> "value", value |-> d, isError |-> FALSE]
ReturnedNull == [kind |-> "null", value |-> "", isError |-> FALSE]
ThrownError(m) == [kind |-> "throw", value |-> m, isError |-> TRUE]
ThrownRaw == [kind |-> "throw", value |-> "", isError |-> FALSE]
Pending == [kind |-> "pending", value |-> "", isError |-> FALSE]

MissingKeyMessageExplicit ==
  "Clé API manquante. Veuillez configurer votre clé dans App.tsx ou via l'interface."
MissingKeyMessageLocal ==
  "Clé API manquante. Veuillez ouvrir 'services/geminiService.ts' et coller votre clé dans la variable LOCAL_API_KEY tout en haut du fichier."
UnknownErrorMessage == "An unknown error occurred while communicating with the API."
ApiErrorPrefix == "API Error: "

----------------------------------------------------------------------------
(* State *)

VARIABLES
  \* one invocation of editImageWithPrompt
  variant,        \* which variant of the function is the deployed one
  apiKey,         \* the apiKey argument (explicit variant only)
  LOCAL_API_KEY,  \* the file-local constant
  envApiKey,      \* process.env.API_KEY
  pc,             \* "NotStarted", "InFlight", "Succeeded", "Failed"
  calls,          \* generateContent calls issued by the invocation
  aiKey,          \* the apiKey given to new GoogleGenAI, None before that
  transport,      \* what the awaited generateContent yielded, None before that
  outcome,        \* how the returned promise settled
  \* the App component
  originalImage, editedImage, prompt, isLoading, error,
  reads,          \* bag of files whose fileToBase64 is pending
  requests,       \* bag of pending editImageWithPrompt calls (their arguments)
  editedFor       \* the base64 argument of the call whose result editedImage shows

editVars == <<pc, calls, aiKey, transport, outcome>>
configVars == <<variant, apiKey, LOCAL_API_KEY, envApiKey>>
appVars ==
  <<originalImage, editedImage, prompt, isLoading, error, reads, requests, editedFor>>
vars == <<configVars, editVars, appVars>>

----------------------------------------------------------------------------
(* editImageWithPrompt *)

\* the key the variant hands to GoogleGenAI
ResolveCredential(v, explicit, local, env) ==
  CASE v = ExplicitVariant -> explicit
    [] v = EnvVariant -> env
    [] v = LocalVariant -> IF local # "" THEN local ELSE env

\* `if (!apiKey) throw new Error("Clé API manquante...")`: the env variant has
\* no such test
ChecksCredential(v) == v \in {ExplicitVariant, LocalVariant}

MissingKeyMessage(v) ==
  IF v = ExplicitVariant THEN MissingKeyMessageExplicit ELSE MissingKeyMessageLocal

\* response.candidates?.[0]?.content?.parts || []
FirstCandidateParts(resp) ==
  IF resp.candidates = None THEN <<>>
  ELSE LET cs == resp.candidates[1]
       IN IF Len(cs) = 0 THEN <<>>
          ELSE IF cs[1].content = None THEN <<>>
          ELSE IF cs[1].content[1].parts = None THEN <<>>
          ELSE cs[1].content[1].parts[1]

\* return part.inlineData.data
InlineDataOfAsDataUrl(part) == "data:image/png;base64," \o part.data
InlineDataOf(part) == part.data

\* for (const part of parts) { if (part.inlineData) return ...data } return null
RECURSIVE ScanPartsLast(_)
ScanPartsLast(parts) ==
  IF parts = <<>> THEN ReturnedNull
  ELSE LET rest == ScanPartsLast(Tail(parts))
       IN IF rest.kind = "value" THEN rest
          ELSE IF Head(parts).hasInlineData THEN Returned(InlineDataOf(Head(parts)))
          ELSE ReturnedNull
RECURSIVE ScanParts(_)
ScanParts(parts) ==
  IF parts = <<>> THEN ReturnedNull
  ELSE IF Head(parts).hasInlineData THEN Returned(InlineDataOf(Head(parts)))
  ELSE ScanParts(Tail(parts))

\* the statements of the try block after the await
ExtractImageOrThrow(resp) ==
  LET r == ScanParts(FirstCandidateParts(resp))
  IN IF r.kind = "null" THEN ThrownError(ApiErrorPrefix \o "No image returned") ELSE r
ExtractImage(resp) == ScanParts(FirstCandidateParts(resp))

\* catch (error) { if (error instanceof Error) throw new Error(`API Error: ...`)
\*                 throw new Error('An unknown error occurred ...') }
CatchBlockNoMessage(t) ==
  IF t.kind = "throwError" THEN ThrownError(ApiErrorPrefix)
  ELSE ThrownError(UnknownErrorMessage)
CatchBlockRethrow(t) ==
  IF t.kind = "throwError" THEN ThrownError(ApiErrorPrefix \o t.message)
  ELSE ThrownRaw
CatchBlock(t) ==
  IF t.kind = "throwError" THEN ThrownError(ApiErrorPrefix \o t.message)
  ELSE ThrownError(UnknownErrorMessage)

\* the try/catch around the await: what the promise settles to
SettleWith(t) ==
  IF t.kind = "ok" THEN ExtractImage(t.response) ELSE CatchBlock(t)

\* the try/catch has no loop: nothing re-issues generateContent
ShouldRetryOnFailure(t) == t.kind # "ok" \/ ExtractImage(t.response).kind = "null"
ShouldRetry(t) == FALSE

\* the whole call, given what the transport would yield
EditImageWithPrompt(v, explicit, local, env, t) ==
  IF ChecksCredential(v) /\ ResolveCredential(v, explicit, local, env) = ""
  THEN ThrownError(MissingKeyMessage(v))
  ELSE SettleWith(t)

SettledStateStuck(o) == IF o.kind = "throw" THEN "InFlight" ELSE "Succeeded"
SettledState(o) == IF o.kind = "throw" THEN "Failed" ELSE "Succeeded"

\* the call up to its first suspension point (or its synchronous throw)
EditCall ==
  /\ pc = "NotStarted"
  /\ LET key == ResolveCredential(variant, apiKey, LOCAL_API_KEY, envApiKey)
     IN IF ChecksCredential(variant) /\ key = ""
        THEN /\ outcome' = ThrownError(MissingKeyMessage(variant))
             /\ pc' = "Failed"
             /\ UNCHANGED <<calls, aiKey>>
        ELSE /\ aiKey' = Some(key)
             /\ calls' = calls + 1
             /\ pc' = "InFlight"
             /\ UNCHANGED outcome
  /\ UNCHANGED <<transport, configVars, appVars>>

\* the awaited generateContent settles and the function runs to its end
TransportResponds(t) ==
  /\ pc = "InFlight"
  /\ transport' = Some(t)
  /\ IF ShouldRetry(t)
     THEN /\ calls' = calls + 1
          /\ UNCHANGED <<pc, outcome>>
     ELSE /\ outcome' = SettleWith(t)
          /\ pc' = SettledState(outcome')
          /\ UNCHANGED calls
  /\ UNCHANGED <<aiKey, configVars, appVars>>

AppIdle ==
  /\ originalImage = None /\ editedImage = None /\ prompt = <<>>
  /\ isLoading = FALSE /\ error = None
  /\ reads = EmptyBag /\ requests = EmptyBag
  /\ editedFor = None

EditInit ==
  /\ LOCAL_API_KEY \in LocalKeys
  /\ variant \in {v \in Variants : ModuleLoads(v, LOCAL_API_KEY)}
  /\ apiKey \in (IF variant = ExplicitVariant THEN ExplicitKeys ELSE {""})
  /\ envApiKey \in EnvKeys
  /\ pc = "NotStarted" /\ calls = 0 /\ aiKey = None
  /\ transport = None /\ outcome = Pending
  /\ AppIdle

EditNext == EditCall \/ \E t \in TransportOutcomes : TransportResponds(t)

EditSpec == EditInit /\ [][EditNext]_vars

\* the transport eventually responds or fails
EditFairSpec ==
  /\ EditSpec
  /\ WF_vars(EditCall)
  /\ WF_vars(\E t \in TransportOutcomes : TransportResponds(t))

----------------------------------------------------------------------------
(* App *)

\* the printable characters of Basic Latin, as runs of consecutive code units
\* <<first code unit, characters>>: U+0020 and U+0021, U+0023 to U+005F,
\* U+0061 to U+007E (the quotation mark and the grave accent are in no
\* literal of the model)
AsciiRuns ==
  <<<<32, " !">>,
    <<35, "#$%&'()*+,-./0123456789:;<=>?@ABCDEFGHIJKLMNOPQRSTUVWXYZ[\\]^_">>,
    <<97, "abcdefghijklmnopqrstuvwxyz{|}~">>>>
CodeUnitOf(c) ==
  LET places == UNION {{<<r, i>> : i \in 1..Len(AsciiRuns[r][2])} : r \in 1..Len(AsciiRuns)}
      at == CHOOSE p \in places : SubSeq(AsciiRuns[p[1]][2], p[2], p[2]) = c
  IN AsciiRuns[at[1]][1] + at[2] - 1
\* the UTF-16 code units of a literal made of Basic Latin characters
RECURSIVE Str(_)
Str(s) ==
  IF Len(s) = 0 THEN <<>>
  ELSE <<CodeUnitOf(SubSeq(s, 1, 1))>> \o Str(SubSeq(s, 2, Len(s)))

\* U+00C9 E acute, U+00E8 e grave, U+00E9 e acute
STYLE_PRESETS ==
  <<Str("Cyberpunk"), Str("Aquarelle"), Str("Pixel Art"), Str("Dessin au crayon"),
    Str("Photo r") \o <<233>> \o Str("aliste"),
    Str("Cartoon 3D"), Str("Origami"), Str("Vapeurwave"), Str("Noir et blanc"),
    Str("Studio Ghibli")>>
ENHANCEMENTS ==
  <<<<201>> \o Str("clairage cin") \o <<233>> \o Str("matique"),
    Str("Haute r") \o <<233>> \o Str("solution 4k"),
    Str("Couleurs vives"),
    Str("Arri") \o <<232>> \o Str("re-plan flou"),
    Str("HDR"), Str("Minimaliste")>>

\* the token buttons the model clicks
ClickedTokens == {ENHANCEMENTS[5]}
\* the texts the model types into the textarea
TypedPrompts == {Str(""), Str(" "), Str("a ")}

\* the files the model selects or drops
Files ==
  {[name |-> "a.png", type |-> "image/png"],
   [name |-> "b.jpg", type |-> "image/jpeg"],
   [name |-> "notes.txt", type |-> "text/plain"]}

\* the service modules the App runs with, <<variant, process.env.API_KEY>>:
\* those that load and take the three arguments handleSubmit passes.  The
\* variant that loads does not test the key, so one key stands for both
AppConfigurations ==
  {<<v, "key-env">> :
     v \in {w \in {EnvVariant, LocalVariant} : \A l \in LocalKeys : ModuleLoads(w, l)}}

\* what generateContent yields in the runs of the App
AppTransportOutcomes ==
  {[kind |-> "ok", message |-> "",
    response |-> [candidates |-> Some(<<[content |-> Some([parts |-> Some(ps)])]>>)]] :
      ps \in {<<InlinePart("d1")>>, <<InlinePart("")>>, <<TextPart>>}}
    \cup {[kind |-> "throwError", response |-> NoResponse, message |-> "boom"],
          [kind |-> "throwOther", response |-> NoResponse, message |-> ""]}

\* WhiteSpace and LineTerminator of ECMAScript: TAB, LF, VT, FF, CR, SP, NBSP,
\* U+1680, U+2000 to U+200A, LS, PS, U+202F, U+205F, U+3000, ZWNBSP
WhiteSpace ==
  {9, 10, 11, 12, 13, 32, 160, 5760, 8232, 8233, 8239, 8287, 12288, 65279}
    \cup (8192..8202)

\* String.prototype.trim
RECURSIVE TrimStart(_)
TrimStart(s) ==
  IF Len(s) > 0 /\ s[1] \in WhiteSpace THEN TrimStart(SubSeq(s, 2, Len(s))) ELSE s
RECURSIVE TrimEnd(_)
TrimEnd(s) ==
  IF Len(s) > 0 /\ s[Len(s)] \in WhiteSpace
  THEN TrimEnd(SubSeq(s, 1, Len(s) - 1)) ELSE s
Trim(s) == TrimEnd(TrimStart(s))

\* the code units toLowerCase is modelled on: Basic Latin, Latin-1 Supplement,
\* Latin Extended-A, the white space, the Kelvin and Angstrom signs
CodeUnits == (0..383) \cup WhiteSpace \cup {8490, 8491}
\* upper-case letters whose lower case is 32 further: A-Z, U+00C0 to U+00DE
\* without the multiplication sign
UpperCasePlus32 == (65..90) \cup ((192..222) \ {215})
\* upper-case letters of Latin Extended-A whose lower case is the next code unit
UpperCasePlus1 ==
  {c \in (256..303) \cup (306..311) \cup (330..375) : c % 2 = 0}
    \cup {c \in (313..327) \cup (377..381) : c % 2 = 1}

\* String.prototype.toLowerCase on one code unit of CodeUnits: U+0130 gives
\* i and the combining dot above, U+0178 gives U+00FF, the Kelvin sign k, the
\* Angstrom sign U+00E5
LowerCaseChar(c) ==
  CASE c \in UpperCasePlus32 -> <<c + 32>>
    [] c \in UpperCasePlus1 -> <<c + 1>>
    [] c = 304 -> <<105, 775>>
    [] c = 376 -> <<255>>
    [] c = 8490 -> <<107>>
    [] c = 8491 -> <<229>>
    [] c \in CodeUnits \ (UpperCasePlus32 \cup UpperCasePlus1 \cup {304, 376, 8490, 8491})
         -> <<c>>
RECURSIVE ToLowerCase(_)
ToLowerCase(s) ==
  IF Len(s) = 0 THEN s
  ELSE LowerCaseChar(s[1]) \o ToLowerCase(SubSeq(s, 2, Len(s)))

\* String.prototype.includes
Includes(s, sub) ==
  \E i \in 1..(Len(s) - Len(sub) + 1) : SubSeq(s, i, i + Len(sub) - 1) = sub

\* String.prototype.startsWith
StartsWith(s, p) == Len(s) >= Len(p) /\ SubSeq(s, 1, Len(p)) = p

\* the updater addPromptToken gives to setPrompt
addPromptToken(prev, token) ==
  LET trimmed == Trim(prev)
  IN IF Len(trimmed) = 0 THEN token
     ELSE IF Includes(ToLowerCase(trimmed), ToLowerCase(token)) THEN prev
     ELSE trimmed \o Str(", ") \o token

\* utils/fileUtils fileToBase64: the base64 text of the file's bytes
fileToBase64(file) == "base64:" \o file.name

\* disabled={!originalImage || isLoading} of the textarea and the token buttons
PromptDisabled == originalImage = None \/ isLoading

\* if (!originalImage || !prompt || isLoading) return;  the same condition is
\* the disabled attribute of the submit button
SubmitBlockedIgnoringPrompt == originalImage = None \/ isLoading
SubmitBlocked == originalImage = None \/ Len(prompt) = 0 \/ isLoading

\* the state updates of handleSubmit after the awaited call settled with o
GenerationFailedMessage(o) ==
  IF o.kind = "throw"
  THEN "Generation failed: " \o (IF o.isError THEN o.value ELSE "An unknown error occurred.")
  ELSE "Generation failed: The model did not return an image. Try a different prompt."
\* if (generatedImage): a non-empty string
ImageReturned(o) == o.kind = "value" /\ o.value # ""

\* setIsLoading(false) at the end of the try block instead of in finally
SubmitSettledNoFinally(o) ==
  /\ IF ImageReturned(o)
     THEN /\ editedImage' = Some("data:image/png;base64," \o o.value)
          /\ isLoading' = FALSE
          /\ UNCHANGED error
     ELSE /\ error' = Some(GenerationFailedMessage(o))
          /\ UNCHANGED <<editedImage, isLoading>>
SubmitSettled(o) ==
  /\ IF ImageReturned(o)
     THEN /\ editedImage' = Some("data:image/png;base64," \o o.value)
          /\ UNCHANGED error
     ELSE /\ error' = Some(GenerationFailedMessage(o))
          /\ UNCHANGED editedImage
  /\ isLoading' = FALSE

\* handleFileChange up to its await (image file) or to its end (other file);
\* reached from handleDrop and onFileInputChange
HandleFileChange(file) ==
  /\ IF StartsWith(file.type, "image/")
     THEN /\ BagCardinality(reads) < MaxReads
          /\ error' = None
          /\ editedImage' = None
          /\ editedFor' = None
          /\ isLoading' = TRUE
          /\ reads' = reads (+) SetToBag({file})
          /\ UNCHANGED originalImage
     ELSE /\ error' = Some("Please select a valid image file.")
          /\ originalImage' = None
          /\ UNCHANGED <<editedImage, editedFor, isLoading, reads>>
  /\ UNCHANGED <<prompt, requests, configVars, editVars>>

\* handleFileChange after the await: fileToBase64 resolved (ok) or rejected
FileReadSettles(file, ok) ==
  /\ BagIn(file, reads)
  /\ reads' = reads (-) SetToBag({file})
  /\ IF ok
     THEN /\ originalImage' =
               Some([base64 |-> fileToBase64(file), mimeType |-> file.type, name |-> file.name])
          /\ UNCHANGED error
     ELSE /\ error' = Some("Failed to load image. Please try another one.")
          /\ originalImage' = None
  /\ isLoading' = FALSE
  /\ UNCHANGED <<editedImage, editedFor, prompt, requests, configVars, editVars>>

\* the remove button: onClick={() => setOriginalImage(null)}
RemoveImage ==
  /\ originalImage # None
  /\ originalImage' = None
  /\ UNCHANGED <<editedImage, editedFor, prompt, isLoading, error, reads, requests, configVars, editVars>>

\* the textarea: onChange={(e) => setPrompt(e.target.value)}
SetPrompt(text) ==
  /\ ~PromptDisabled
  /\ prompt' = text
  /\ UNCHANGED <<originalImage, editedImage, editedFor, isLoading, error, reads, requests,
                 configVars, editVars>>

\* a style or enhancement button: onClick={() => addPromptToken(token)}
AddPromptToken(token) ==
  /\ ~PromptDisabled
  /\ prompt' = addPromptToken(prompt, token)
  /\ UNCHANGED <<originalImage, editedImage, editedFor, isLoading, error, reads, requests,
                 configVars, editVars>>

\* the clear button, rendered when prompt is not empty: onClick={() => setPrompt('')}
ClearPrompt ==
  /\ Len(prompt) > 0
  /\ prompt' = <<>>
  /\ UNCHANGED <<originalImage, editedImage, editedFor, isLoading, error, reads, requests,
                 configVars, editVars>>

\* handleSubmit up to its await.  A variant that finds no key throws before
\* its first await, so the catch and finally blocks run before any other event.
HandleSubmit ==
  /\ ~SubmitBlocked
  /\ IF ChecksCredential(variant)
          /\ ResolveCredential(variant, apiKey, LOCAL_API_KEY, envApiKey) = ""
     THEN /\ error' = Some(GenerationFailedMessage(ThrownError(MissingKeyMessage(variant))))
          /\ editedImage' = None
          /\ editedFor' = None
          /\ isLoading' = FALSE
          /\ UNCHANGED requests
     ELSE /\ BagCardinality(requests) < MaxRequests
          /\ isLoading' = TRUE
          /\ error' = None
          /\ editedImage' = None
          /\ editedFor' = None
          /\ requests' = requests (+) SetToBag({[base64 |-> originalImage[1].base64,
                                                 mimeType |-> originalImage[1].mimeType,
                                                 prompt |-> prompt]})
  /\ UNCHANGED <<originalImage, prompt, reads, configVars, editVars>>

\* handleSubmit after the await: the call for request r settled, the transport
\* having yielded t
RequestSettles(r, t) ==
  /\ BagIn(r, requests)
  /\ requests' = requests (-) SetToBag({r})
  /\ LET o == EditImageWithPrompt(variant, apiKey, LOCAL_API_KEY, envApiKey, t)
     IN /\ SubmitSettled(o)
        /\ editedFor' = IF ImageReturned(o) THEN Some(r.base64) ELSE editedFor
  /\ UNCHANGED <<originalImage, prompt, reads, configVars, editVars>>

Init ==
  /\ \E c \in AppConfigurations :
       variant = c[1] /\ envApiKey = c[2]
  /\ LOCAL_API_KEY \in LocalKeys
  /\ apiKey = ""
  /\ pc = "NotStarted" /\ calls = 0 /\ aiKey = None
  /\ transport = None /\ outcome = Pending
  /\ AppIdle

Next ==
  \/ \E file \in Files : HandleFileChange(file)
  \/ \E file \in Files, ok \in BOOLEAN : FileReadSettles(file, ok)
  \/ RemoveImage
  \/ \E text \in TypedPrompts : SetPrompt(text)
  \/ \E token \in ClickedTokens : AddPromptToken(token)
  \/ ClearPrompt
  \/ HandleSubmit
  \/ \E r \in BagToSet(requests), t \in AppTransportOutcomes : RequestSettles(r, t)

Spec == Init /\ [][Next]_vars

\* every pending call eventually settles
FairSpec ==
  /\ Spec
  /\ WF_vars(\E r \in BagToSet(requests), t \in AppTransportOutcomes : RequestSettles(r, t))

----------------------------------------------------------------------------
(* Properties of editImageWithPrompt (specification EditSpec) *)

Settled == pc \in {"Succeeded", "Failed"}
TransportOk == transport # None /\ transport[1].kind = "ok"

HasPrefix(s, p) == Len(s) >= Len(p) /\ SubSeq(s, 1, Len(p)) = p
AfterPrefix(s, p) == SubSeq(s, Len(p) + 1, Len(s))

IsSuccess(o) == o.kind = "value"
IsNoImageProduced(o) == o.kind = "null"
IsMissingCredential(o) ==
  o.kind = "throw" /\ o.isError /\ HasPrefix(o.value, "Clé API manquante.")
IsServiceError(o) == o.kind = "throw" /\ o.isError /\ HasPrefix(o.value, "API Error: ")
IsUnknownError(o) ==
  o.kind = "throw" /\ o.isError
    /\ o.value = "An unknown error occurred while communicating with the API."

\* the parts of the first candidate of the received response, <<>> when the
\* candidate list, the candidate, its content or its parts are missing
ReceivedParts ==
  LET r == transport[1].response
  IN IF r.candidates = None \/ r.candidates[1] = <<>> THEN <<>>
     ELSE LET c == r.candidates[1][1]
          IN IF c.content = None \/ c.content[1].parts = None THEN <<>>
             ELSE c.content[1].parts[1]
InlineIndexes(ps) == {i \in 1..Len(ps) : ps[i].hasInlineData}

\* the local constant as a source of the credential: empty when it has no value
LocalSource == IF LOCAL_API_KEY = None THEN "" ELSE LOCAL_API_KEY[1]
AllSourcesEmpty == apiKey = "" /\ LocalSource = "" /\ envApiKey = ""

\* C1: an invocation with no credential (every source empty) issues no
\* generateContent call and, once started, has failed with the missing-key error.
C1_MissingCredentialBeforeNetwork ==
  AllSourcesEmpty =>
    /\ calls = 0
    /\ pc # "NotStarted" => (pc = "Failed" /\ IsMissingCredential(outcome))

\* C2: when the first candidate of the response carries inline data, the call
\* returns a value, and that value is the data field of an inline part of that
\* candidate, unchanged.
C2_InlineDataPassThrough ==
  (Settled /\ TransportOk /\ InlineIndexes(ReceivedParts) # {}) =>
    /\ pc = "Succeeded"
    /\ IsSuccess(outcome)
    /\ \E i \in InlineIndexes(ReceivedParts) : outcome.value = ReceivedParts[i].data
C2_Witness ==
  /\ Settled /\ TransportOk
  /\ ReceivedParts = <<InlinePart("d1")>>
  /\ outcome.kind = "value" /\ outcome.value = "d1"

\* C3: when the call succeeded and the first candidate has no inline part
\* (also when the candidate list, the candidate or its parts are missing), the
\* promise resolves to null; it does not reject.
C3_NoInlineDataIsNull ==
  (Settled /\ TransportOk /\ InlineIndexes(ReceivedParts) = {}) =>
    /\ pc = "Succeeded"
    /\ IsNoImageProduced(outcome)
    /\ ~IsServiceError(outcome)
C3_Witness ==
  /\ Settled /\ TransportOk
  /\ transport[1].response.candidates # None
  /\ ReceivedParts = <<TextPart>>
  /\ outcome.kind = "null"

\* C4: when generateContent throws an Error with message m, the promise rejects
\* with an Error whose message is "API Error: " followed by m.
C4_TransportErrorWrapped ==
  (Settled /\ transport # None /\ transport[1].kind = "throwError") =>
    /\ pc = "Failed"
    /\ IsServiceError(outcome)
    /\ AfterPrefix(outcome.value, "API Error: ") = transport[1].message
C4_Witness ==
  /\ pc = "Failed"
  /\ transport # None /\ transport[1].kind = "throwError" /\ transport[1].message = "boom"
  /\ outcome.value = "API Error: boom"

\* C5: an invocation issues zero or one generateContent call.
C5_AtMostOneCall == calls \in {0, 1}
C5_Witness ==
  /\ pc = "Failed" /\ calls = 1
  /\ transport # None /\ transport[1].kind = "throwError"

\* the credential the three-source chain of the claim selects
ClaimedCredential ==
  IF apiKey # "" THEN apiKey
  ELSE IF LocalSource # "" THEN LocalSource
  ELSE envApiKey

\* C6 as stated: the first non-empty of explicit value, local constant and
\* environment value is the credential used, and the missing-key failure occurs
\* only when all three are empty.
C6_ThreeSourcePrecedence ==
  /\ (pc # "NotStarted" /\ ClaimedCredential # "") => aiKey = Some(ClaimedCredential)
  /\ IsMissingCredential(outcome) => ClaimedCredential = ""

ExactlyOne(bs) == Cardinality({i \in 1..Len(bs) : bs[i]}) = 1
TerminalStep ==
  \/ pc = "NotStarted" /\ pc' = "InFlight"
  \/ pc = "NotStarted" /\ pc' = "Failed" /\ IsMissingCredential(outcome') /\ calls' = 0
  \/ pc = "InFlight" /\ pc' \in {"Succeeded", "Failed"}

\* C7: an invocation is in one of the four states, moves only forward along
\* NotStarted -> InFlight -> Succeeded | Failed (the missing-key failure goes
\* from NotStarted straight to Failed), eventually settles, settles with exactly
\* one outcome of the closed set, and once settled changes no more.
C7_Lifecycle ==
  /\ [](pc \in {"NotStarted", "InFlight", "Succeeded", "Failed"})
  /\ [][pc' # pc => TerminalStep]_vars
  /\ [][Settled => (pc' = pc /\ outcome' = outcome /\ calls' = calls)]_vars
  /\ [](Settled => ExactlyOne(<<IsSuccess(outcome), IsNoImageProduced(outcome),
                                 IsServiceError(outcome), IsMissingCredential(outcome),
                                 IsUnknownError(outcome)>>))
  /\ [](~Settled => outcome.kind \in {"pending"})
  /\ <>Settled
C7_Witness ==
  /\ pc = "Failed" /\ calls = 1 /\ IsServiceError(outcome)

\* C8: a thrown value that is not an Error is replaced by an Error with the
\* fixed generic message, and every rejection is an Error with a message.
C8_UnknownErrorWrapped ==
  /\ (Settled /\ transport # None /\ transport[1].kind = "throwOther") =>
        (pc = "Failed" /\ IsUnknownError(outcome))
  /\ (Settled /\ outcome.kind = "throw") => (outcome.isError /\ outcome.value # "")
C8_Witness ==
  /\ pc = "Failed"
  /\ transport # None /\ transport[1].kind = "throwOther"
  /\ outcome.value = "An unknown error occurred while communicating with the API."

\* C10: the result is decided by the first candidate alone: the data of its
\* first inline part, or null when it has none, whatever later parts and later
\* candidates carry.
C10_FirstCandidateFirstInlinePart ==
  (Settled /\ TransportOk) =>
    LET ps == ReceivedParts
        first == {i \in InlineIndexes(ps) : \A j \in InlineIndexes(ps) : i <= j}
    IN IF first = {} THEN outcome.kind = "null"
       ELSE \A i \in first : outcome.kind = "value" /\ outcome.value = ps[i].data
C10_Witness ==
  /\ Settled /\ TransportOk
  /\ ReceivedParts = <<InlinePart("d1"), InlinePart("")>>
  /\ Len(transport[1].response.candidates[1]) = 2
  /\ transport[1].response.candidates[1][2].content # None
  /\ outcome.kind = "value" /\ outcome.value = "d1"

----------------------------------------------------------------------------
(* Properties of App (specification Spec) *)

CallIssued == BagCardinality(requests') > BagCardinality(requests)

\* C9: handleSubmit issues a call to editImageWithPrompt only in a state where
\* prompt is not empty and originalImage is not null, and the call carries that
\* prompt and that image.
C9_CallOnlyWithPromptAndImage ==
  [][CallIssued =>
       /\ Len(prompt) > 0
       /\ originalImage # None
       /\ \E r \in BagToSet(requests') :
            /\ CopiesIn(r, requests') > CopiesIn(r, requests)
            /\ r.prompt = prompt /\ Len(r.prompt) > 0
            /\ r.base64 = originalImage[1].base64]_vars
C9_Witness ==
  /\ prompt = <<>>
  /\ \E r \in BagToSet(requests) : r.prompt = Str("a, HDR")

NoImageMessage ==
  "Generation failed: The model did not return an image. Try a different prompt."

\* a pending call resolves to null and handleSubmit runs to its end
NullResultSettles ==
  \E r \in BagToSet(requests), t \in AppTransportOutcomes :
    /\ EditImageWithPrompt(variant, apiKey, LOCAL_API_KEY, envApiKey, t).kind = "null"
    /\ RequestSettles(r, t)

\* C11: whenever a call resolves to null, handleSubmit ends with error set to
\* the try-a-different-prompt message, editedImage null and isLoading false.
C11_NullResultIsFailure ==
  [][NullResultSettles =>
       /\ error' = Some(NoImageMessage)
       /\ editedImage' = None
       /\ isLoading' = FALSE]_vars

\* C12: at most one call to editImageWithPrompt is pending at any time.
C12_AtMostOneRequestInFlight == BagCardinality(requests) <= 1

\* C13: whenever editedImage is set, originalImage is set and editedImage is
\* the result of a call issued for the image originalImage holds.
C13_EditedImageOfOriginal ==
  editedImage # None =>
    /\ originalImage # None
    /\ editedFor = Some(originalImage[1].base64)

\* C14: error and editedImage are never both set.
C14_ErrorOrEditedNotBoth == ~(error # None /\ editedImage # None)

\* a pending call settles and handleSubmit runs to its end
RequestFinished == BagCardinality(requests') < BagCardinality(requests)

\* C15: the step that finishes a submit leaves isLoading false, writes one of
\* editedImage and error and not the other, and leaves the one it writes set;
\* and while a call is pending, isLoading eventually becomes false.
C15_SubmitFinishes ==
  /\ [][RequestFinished =>
          /\ isLoading' = FALSE
          /\ \/ editedImage' # None /\ editedFor' # None /\ error' = error
             \/ error' # None /\ StartsWith(error'[1], "Generation failed: ")
                  /\ editedImage' = editedImage]_vars
  /\ (requests # EmptyBag) ~> (isLoading = FALSE)
C15_Witness ==
  /\ requests = EmptyBag /\ reads = EmptyBag
  /\ isLoading = FALSE
  /\ editedImage = None
  /\ error = Some("Generation failed: API Error: boom")

====
